---- MODULE Spec2Model ----
(***************************************************************************)
(* Model of pytanque/client.py: the Pytanque session object (request id    *)
(* counter, socket, state stack, environment handle, file and theorem) and *)
(* its operations.  The client is single-threaded and blocking, so every   *)
(* public method is one atomic action; the server's reply to the request   *)
(* the method sends is an input of the action.                             *)
(***************************************************************************)
EXTENDS Integers, Sequences, FiniteSets, TLC

\* ---------------------------------------------------------------- bounds
MaxCalls == 3
MaxSize  == 3
MaxLen   == 6

\* ---------------------------------------------------------------- inputs
Roots    == {"/proj"}
Proofs   == {<<"a.v", "foo">>, <<"b.v", "bar">>}
Tactics  == {"intro x.", "reflexivity."}
Envs     == {7, 8}
StateIds == {42, 43}
Msgs     == {"boom"}

\* ------------------------------------------------------------ program state
VARIABLES
    id,        \* self.id: request id counter
    socket,    \* self.socket: "created", "connected" or "closed"
    queue,     \* self.queue: sequence of State records, top at the end
    env,       \* self.env
    file,      \* self.file
    thm,       \* self.thm
    sent,      \* ids of the payloads handed to socket.sendall, in order
    lastReq,   \* the last Request handed to socket.sendall
    lastReply, \* what the last call met as its reply (NoReply: it sent nothing)
    last,      \* the last call: operation, exception raised, value returned
    started,   \* a start (or reset) has succeeded on this session
    tacs_ok,   \* successful run_tac calls since the last successful start,
               \* -1 once a backtrack or a failed start/reset intervened
    lastTac,   \* state id and tactic text of the last successful run_tac
               \* of the current proof (since the last start or reset)
    startArgs, \* the file and theorem passed to the most recent start call
    startReq,  \* request id of the most recent successful start or reset
    prov,      \* for each entry of queue, the request that pushed it
    block,     \* the with statement: "outside", "inside" or "left"
    size,      \* receive loop: the chunk size
    data,      \* receive loop: the bytes of the reply the peer sends
    pending,   \* receive loop: bytes sent and not yet read
    peer_open, \* receive loop: the peer keeps the connection open
    fragments, \* receive loop: the chunks read so far
    raw,       \* receive loop: the bytes handed to the decoder
    rx,        \* receive loop: "idle", "recv" (in the loop) or "done"
    full       \* receive loop: every recv so far returned all it could

vars == <<id, socket, queue, env, file, thm, sent, lastReq, lastReply, last,
          started, tacs_ok, lastTac, startArgs, startReq, prov, block,
          size, data, pending, peer_open, fragments, raw, rx, full>>

\* the variables of the receive loop
rxvars == <<size, data, pending, peer_open, fragments, raw, rx, full>>

\* the record of the requests that built the stack
history == <<startArgs, startReq, prov>>

\* --------------------------------------------------------------- data types
\* dataclass State
State(i, a) == [id |-> i, action |-> a]

\* pathlib.Path(os.path.abspath(p)).as_uri()
as_uri(p) == <<"file://", p>>

NoUri == <<>>

InitParams(uri) ==
    [kind |-> "InitParams", uri |-> uri, env |-> 0, thm |-> "",
     state_id |-> 0, tactic |-> ""]
StartParams(e, uri, t) ==
    [kind |-> "StartParams", uri |-> uri, env |-> e, thm |-> t,
     state_id |-> 0, tactic |-> ""]
RunParams(st, tac) ==
    [kind |-> "RunParams", uri |-> NoUri, env |-> 0, thm |-> "",
     state_id |-> st, tactic |-> tac]
GoalsParams(st) ==
    [kind |-> "GoalsParams", uri |-> NoUri, env |-> 0, thm |-> "",
     state_id |-> st, tactic |-> ""]
PremisesParams(st) ==
    [kind |-> "PremisesParams", uri |-> NoUri, env |-> 0, thm |-> "",
     state_id |-> st, tactic |-> ""]

Request(i, method, params) == [id |-> i, method |-> method, params |-> params]

NoRequest == Request(0, "", InitParams(NoUri))

mk_request(i, params) ==
    CASE params.kind = "InitParams"     -> Request(i, "petanque/init", params)
      [] params.kind = "StartParams"    -> Request(i, "petanque/start", params)
      [] params.kind = "RunParams"      -> Request(i, "petanque/run", params)
      [] params.kind = "GoalsParams"    -> Request(i, "petanque/goals", params)
      [] params.kind = "PremisesParams" -> Request(i, "petanque/premises", params)

\* ------------------------------------------------------ what the peer sends
\* A reply is what recv delivers for one request: a Response object, a
\* Failure object, bytes that are neither, or no reply at all because
\* sendall or recv raised.
Response(i, tag, val) ==
    [kind |-> "Response", id |-> i, tag |-> tag, val |-> val, error |-> ""]
Failure(m) ==
    [kind |-> "Failure", id |-> 0, tag |-> "", val |-> 0, error |-> m]
Garbage ==
    [kind |-> "Garbage", id |-> 0, tag |-> "", val |-> 0, error |-> ""]
Broken ==
    [kind |-> "Broken", id |-> 0, tag |-> "", val |-> 0, error |-> ""]

NoReply ==
    [kind |-> "none", id |-> 0, tag |-> "", val |-> 0, error |-> ""]

Results(method) ==
    CASE method = "petanque/init"     -> {"Int"} \X Envs
      [] method = "petanque/start"    -> {"Int"} \X StateIds
      [] method = "petanque/run"      ->
             {"CurrentState", "ProofFinished", "Other"} \X StateIds
      [] method = "petanque/goals"    -> {"Goals"} \X {0}
      [] method = "petanque/premises" -> {"Premises"} \X {0}

\* the replies the call that sends request id i can meet: on a socket that
\* is not connected sendall raises and nothing is read
Replies(method, i) ==
    IF socket # "connected" THEN {Broken} ELSE
    {Response(r, res[1], res[2]) : r \in {i - 1, i, i + 1}, res \in Results(method)}
        \cup {Failure(m) : m \in Msgs} \cup {Garbage, Broken}

\* ------------------------------------------------------------- exceptions
NoExc == [type |-> "none", msg |-> "", sentId |-> 0, gotId |-> 0]
Raise(type, msg) == [type |-> type, msg |-> msg, sentId |-> 0, gotId |-> 0]
\* PetanqueError(f"Sent request {self.id}, got response {resp.id}")
Mismatch(s, g) ==
    [type |-> "PetanqueError", msg |-> "Sent request, got response",
     sentId |-> s, gotId |-> g]

\* ------------------------------------------------------------------ query
\* query with the counter advanced after the request was built
query_late_increment(i, sk, params, reply) ==
    LET nid     == i + 1
        request == mk_request(i, params)
        exc     ==
            IF sk # "connected" \/ reply.kind = "Broken"
            THEN Raise("OSError", "socket")
            ELSE IF reply.kind = "Response"
            THEN IF reply.id # nid THEN Mismatch(nid, reply.id) ELSE NoExc
            ELSE IF reply.kind = "Failure"
            THEN Raise("PetanqueError", reply.error)
            ELSE Raise("ValueError", "decode")
    IN  [id |-> nid, request |-> request, exc |-> exc, resp |-> reply]

\* Pytanque.query: the new counter value, the request handed to sendall,
\* the exception raised (NoExc when it returns) and the Response returned.
query(i, sk, params, reply) ==
    LET nid     == i + 1
        request == mk_request(nid, params)
        exc     ==
            IF sk # "connected" \/ reply.kind = "Broken"
            THEN Raise("OSError", "socket")
            ELSE IF reply.kind = "Response"
            THEN IF reply.id # nid THEN Mismatch(nid, reply.id) ELSE NoExc
            ELSE IF reply.kind = "Failure"
            THEN Raise("PetanqueError", reply.error)
            ELSE Raise("ValueError", "decode")
    IN  [id |-> nid, request |-> request, exc |-> exc, resp |-> reply]

\* current_state reading the oldest entry
current_state_bottom(q) == q[1].id

\* Pytanque.current_state, on a non-empty queue
current_state(q) == q[Len(q)].id

\* deque.pop taking the entry from the left end
popleft(q) == [st |-> q[1], rest |-> Tail(q)]

\* the top entry read but left in place
pop_peek(q) == [st |-> q[Len(q)], rest |-> q]

\* deque.pop on a non-empty queue: the entry removed and what remains
pop(q) == [st |-> q[Len(q)], rest |-> SubSeq(q, 1, Len(q) - 1)]

\* start without the clear
StartQueue_keep(que, q) ==
    IF q.exc = NoExc THEN Append(que, State(q.resp.val, "Start")) ELSE que

\* the queue start leaves: cleared, then one "Start" entry pushed when the
\* query returned
StartQueue(que, q) ==
    IF q.exc = NoExc THEN <<State(q.resp.val, "Start")>> ELSE <<>>

\* run_tac pushing before it looks at the variant
RunQueue_early_push(que, q, tac) ==
    IF q.exc = NoExc THEN Append(que, State(q.resp.val, tac)) ELSE que

\* run_tac labelling the entry with the variant instead of the tactic
RunQueue_variant_label(que, q, tac) ==
    IF q.exc = NoExc /\ q.resp.tag \in {"CurrentState", "ProofFinished"}
    THEN Append(que, State(q.resp.val, q.resp.tag))
    ELSE que

\* run_tac pushing at the left end
RunQueue_appendleft(que, q, tac) ==
    IF q.exc = NoExc /\ q.resp.tag \in {"CurrentState", "ProofFinished"}
    THEN <<State(q.resp.val, tac)>> \o que
    ELSE que

\* the queue run_tac leaves: one entry pushed when the query returned a
\* CurrentState or a ProofFinished
RunQueue(que, q, tac) ==
    IF q.exc = NoExc /\ q.resp.tag \in {"CurrentState", "ProofFinished"}
    THEN Append(que, State(q.resp.val, tac))
    ELSE que

\* the record of a call kept in `last`; for a backtrack, `under` is the id
\* of the entry beneath the top before the call (0 when there is none)
Call(op, exc, retTag, retId) ==
    [op |-> op, exc |-> exc.type, msg |-> exc.msg, sentId |-> exc.sentId,
     gotId |-> exc.gotId, retTag |-> retTag, retId |-> retId, n |-> tacs_ok,
     under |-> IF op = "backtrack" /\ Len(queue) >= 2
               THEN queue[Len(queue) - 1].id ELSE 0]

\* the record of a push kept in `prov`
Pushed(req, result) ==
    [req |-> req.id, method |-> req.method, target |-> req.params.state_id,
     result |-> result, tactic |-> req.params.tactic]

\* ------------------------------------------------------------------- Init
InitSession ==
    /\ id = 0
    /\ socket = "created"
    /\ queue = <<>>
    /\ env = 0
    /\ file = ""
    /\ thm = ""
    /\ sent = <<>>
    /\ lastReq = NoRequest
    /\ lastReply = NoReply
    /\ last = [op |-> "__init__", exc |-> "none", msg |-> "", sentId |-> 0,
               gotId |-> 0, retTag |-> "None", retId |-> 0, n |-> -1,
               under |-> 0]
    /\ started = FALSE
    /\ tacs_ok = -1
    /\ lastTac = State(0, "")
    /\ startArgs = <<"", "">>
    /\ startReq = 0
    /\ prov = <<>>
    /\ block = "outside"

\* no receive loop running
RxIdle ==
    /\ size = 0
    /\ data = <<>>
    /\ pending = <<>>
    /\ peer_open = TRUE
    /\ fragments = <<>>
    /\ raw = <<>>
    /\ rx = "idle"
    /\ full = TRUE

Init ==
    /\ InitSession
    /\ RxIdle

\* ---------------------------------------------------------------- actions
connect ==
    /\ \E refused \in BOOLEAN :
         IF socket = "created" /\ ~refused
         THEN /\ socket' = "connected"
              /\ last' = Call("connect", NoExc, "None", 0)
         ELSE /\ socket' = socket
              /\ last' = Call("connect", Raise("OSError", "connect"), "None", 0)
    /\ lastReply' = NoReply
    /\ UNCHANGED <<id, queue, env, file, thm, sent, lastReq, started, tacs_ok, lastTac>>
    /\ UNCHANGED <<history, block, rxvars>>

close ==
    /\ socket' = "closed"
    /\ last' = Call("close", NoExc, "None", 0)
    /\ lastReply' = NoReply
    /\ UNCHANGED <<id, queue, env, file, thm, sent, lastReq, started, tacs_ok, lastTac>>
    /\ UNCHANGED <<history, block, rxvars>>

init ==
    /\ id < MaxCalls
    /\ \E root \in Roots : \E reply \in Replies("petanque/init", id + 1) :
         LET q == query(id, socket, InitParams(as_uri(root)), reply) IN
         /\ id' = q.id
         /\ sent' = Append(sent, q.request.id)
         /\ lastReq' = q.request
         /\ lastReply' = reply
         /\ env' = IF q.exc = NoExc THEN q.resp.val ELSE env
         /\ last' = Call("init", q.exc, "None", 0)
    /\ UNCHANGED <<socket, queue, file, thm, started, tacs_ok, lastTac>>
    /\ UNCHANGED <<history, block, rxvars>>

\* start storing the file and the theorem only once its query returned
StartBody_store_late(op, f, t, reply) ==
    LET q == query(id, socket, StartParams(env, as_uri(f), t), reply) IN
    /\ file' = IF q.exc = NoExc THEN f ELSE file
    /\ thm' = IF q.exc = NoExc THEN t ELSE thm
    /\ id' = q.id
    /\ sent' = Append(sent, q.request.id)
    /\ lastReq' = q.request
    /\ lastReply' = reply
    /\ queue' = StartQueue(queue, q)
    /\ last' = Call(op, q.exc, "None", 0)
    /\ started' = (started \/ q.exc = NoExc)
    /\ tacs_ok' = IF q.exc = NoExc THEN 0 ELSE -1
    /\ lastTac' = State(0, "")
    /\ startArgs' = IF op = "start" THEN <<f, t>> ELSE startArgs
    /\ startReq' = IF q.exc = NoExc THEN q.id ELSE startReq
    /\ prov' = IF q.exc = NoExc THEN <<Pushed(q.request, q.resp.val)>> ELSE <<>>
    /\ UNCHANGED <<socket, env, block, rxvars>>

\* body of Pytanque.start, shared by start and reset
StartBody(op, f, t, reply) ==
    LET q == query(id, socket, StartParams(env, as_uri(f), t), reply) IN
    /\ file' = f
    /\ thm' = t
    /\ id' = q.id
    /\ sent' = Append(sent, q.request.id)
    /\ lastReq' = q.request
    /\ lastReply' = reply
    /\ queue' = StartQueue(queue, q)
    /\ last' = Call(op, q.exc, "None", 0)
    /\ started' = (started \/ q.exc = NoExc)
    /\ tacs_ok' = IF q.exc = NoExc THEN 0 ELSE -1
    /\ lastTac' = State(0, "")
    /\ startArgs' = IF op = "start" THEN <<f, t>> ELSE startArgs
    /\ startReq' = IF q.exc = NoExc THEN q.id ELSE startReq
    /\ prov' = IF q.exc = NoExc THEN <<Pushed(q.request, q.resp.val)>> ELSE <<>>
    /\ UNCHANGED <<socket, env, block, rxvars>>

start ==
    /\ id < MaxCalls
    /\ \E p \in Proofs : \E reply \in Replies("petanque/start", id + 1) :
         StartBody("start", p[1], p[2], reply)

reset ==
    /\ id < MaxCalls
    /\ \E reply \in Replies("petanque/start", id + 1) :
         StartBody("reset", file, thm, reply)

\* a call whose argument self.current_state() raised on the empty deque
EmptyQueue(op) ==
    /\ queue = <<>>
    /\ last' = Call(op, Raise("IndexError", "deque index out of range"), "None", 0)
    /\ lastReply' = NoReply
    /\ UNCHANGED <<id, socket, queue, env, file, thm, sent, lastReq,
                   started, tacs_ok, lastTac, history, block, rxvars>>

run_tac ==
    \E tac \in Tactics :
      \/ EmptyQueue("run_tac")
      \/ /\ queue # <<>>
         /\ id < MaxCalls
         /\ \E reply \in Replies("petanque/run", id + 1) :
              LET q   == query(id, socket, RunParams(current_state(queue), tac), reply)
                  ok  == q.exc = NoExc /\ q.resp.tag \in {"CurrentState", "ProofFinished"}
                  exc == IF q.exc # NoExc THEN q.exc
                         ELSE IF ok THEN NoExc
                         ELSE Raise("PetanqueError", "Invalid proof state")
              IN
              /\ id' = q.id
              /\ sent' = Append(sent, q.request.id)
              /\ lastReq' = q.request
              /\ lastReply' = reply
              /\ queue' = RunQueue(queue, q, tac)
              /\ last' = IF ok THEN Call("run_tac", NoExc, q.resp.tag, q.resp.val)
                               ELSE Call("run_tac", exc, "None", 0)
              /\ tacs_ok' = IF ok /\ tacs_ok >= 0 THEN tacs_ok + 1 ELSE tacs_ok
              /\ lastTac' = IF ok THEN State(q.resp.val, tac) ELSE lastTac
              /\ prov' = IF ok THEN Append(prov, Pushed(q.request, q.resp.val))
                               ELSE prov
         /\ UNCHANGED <<socket, env, file, thm, started, startArgs, startReq,
                        block, rxvars>>

\* goals and premises: a request against the top id, the result returned
Ask(op, params, method, tag) ==
    \/ EmptyQueue(op)
    \/ /\ queue # <<>>
       /\ id < MaxCalls
       /\ \E reply \in Replies(method, id + 1) :
            LET q == query(id, socket, params, reply) IN
            /\ id' = q.id
            /\ sent' = Append(sent, q.request.id)
            /\ lastReq' = q.request
            /\ lastReply' = reply
            /\ last' = IF q.exc = NoExc THEN Call(op, NoExc, tag, q.resp.val)
                                        ELSE Call(op, q.exc, "None", 0)
       /\ UNCHANGED <<socket, queue, env, file, thm, started, tacs_ok, lastTac,
                      history, block, rxvars>>

goals ==
    Ask("goals", GoalsParams(IF queue = <<>> THEN 0 ELSE current_state(queue)),
        "petanque/goals", "Goals")

premises ==
    Ask("premises", PremisesParams(IF queue = <<>> THEN 0 ELSE current_state(queue)),
        "petanque/premises", "Premises")

\* backtrack that spends a request id
backtrack_counts ==
    /\ IF queue = <<>>
       THEN /\ queue' = queue
            /\ last' = Call("backtrack", Raise("IndexError", "pop from an empty deque"),
                            "None", 0)
            /\ tacs_ok' = tacs_ok
       ELSE /\ queue' = pop(queue).rest
            /\ last' = Call("backtrack", NoExc, pop(queue).st.action,
                            pop(queue).st.id)
            /\ tacs_ok' = -1
    /\ id' = id + 1
    /\ lastReply' = NoReply
    /\ prov' = SubSeq(prov, 1, Len(prov) - 1)
    /\ UNCHANGED <<socket, env, file, thm, sent, lastReq, started, lastTac,
                   startArgs, startReq, block, rxvars>>

backtrack ==
    /\ IF queue = <<>>
       THEN /\ queue' = queue
            /\ last' = Call("backtrack", Raise("IndexError", "pop from an empty deque"),
                            "None", 0)
            /\ tacs_ok' = tacs_ok
       ELSE /\ queue' = pop(queue).rest
            /\ last' = Call("backtrack", NoExc, pop(queue).st.action,
                            pop(queue).st.id)
            /\ tacs_ok' = -1
    /\ lastReply' = NoReply
    /\ prov' = SubSeq(prov, 1, Len(prov) - 1)
    /\ UNCHANGED <<id, socket, env, file, thm, sent, lastReq, started, lastTac,
                   startArgs, startReq, block, rxvars>>

Next ==
    \/ connect
    \/ close
    \/ init
    \/ start
    \/ reset
    \/ run_tac
    \/ goals
    \/ premises
    \/ backtrack

Spec == Init /\ [][Next]_vars

\* ------------------------------------------------- the managed session block
\* `with Pytanque(host, port) as p:` calls __enter__, runs the body when
\* __enter__ returned, and calls __exit__ when the body is left, normally or
\* by an exception; __exit__ returns None, so the exception goes on.
__enter__ ==
    /\ block = "outside"
    /\ \E refused \in BOOLEAN :
         IF socket = "created" /\ ~refused
         THEN /\ socket' = "connected"
              /\ block' = "inside"
              /\ last' = Call("__enter__", NoExc, "None", 0)
         ELSE /\ socket' = socket
              /\ block' = block
              /\ last' = Call("__enter__", Raise("OSError", "connect"), "None", 0)
    /\ lastReply' = NoReply
    /\ UNCHANGED <<id, queue, env, file, thm, sent, lastReq, started, tacs_ok,
                   lastTac, history, rxvars>>

\* the exception the body is left with: none, or the one its last call raised
ExitPaths ==
    IF last.exc = "none" THEN {NoExc} ELSE {NoExc, Raise(last.exc, last.msg)}

\* __exit__ closing only when the body ended without an exception
exit_on_success_only ==
    /\ block = "inside"
    /\ \E exc \in ExitPaths :
         /\ socket' = IF exc = NoExc THEN "closed" ELSE socket
         /\ last' = Call("__exit__", exc, "None", 0)
    /\ block' = "left"
    /\ lastReply' = NoReply
    /\ UNCHANGED <<id, queue, env, file, thm, sent, lastReq, started, tacs_ok,
                   lastTac, history, rxvars>>

__exit__ ==
    /\ block = "inside"
    /\ \E exc \in ExitPaths :
         /\ socket' = "closed"
         /\ last' = Call("__exit__", exc, "None", 0)
    /\ block' = "left"
    /\ lastReply' = NoReply
    /\ UNCHANGED <<id, queue, env, file, thm, sent, lastReq, started, tacs_ok,
                   lastTac, history, rxvars>>

\* the calls of the body
Body ==
    /\ block = "inside"
    /\ Next

NextWith ==
    \/ __enter__
    \/ Body
    \/ __exit__

SpecWith == Init /\ [][NextWith]_vars

\* ------------------------------------------------------- the receive loop
\* The loop of Pytanque.query that reads one reply: the peer has sent the
\* bytes of `data` and then either keeps the connection open and silent or
\* closes it.  One step is one iteration: recv, append, test.
session == <<id, socket, queue, env, file, thm, sent, lastReq, lastReply, last,
             started, tacs_ok, lastTac, history, block>>

Min(a, b) == IF a < b THEN a ELSE b

RECURSIVE join(_)
\* b"".join(fragments)
join(fs) == IF fs = <<>> THEN <<>> ELSE Head(fs) \o join(Tail(fs))

\* a loop that only stops on an empty chunk
short_if_empty(chunk, sz) == Len(chunk) = 0

\* the test that ends the loop: len(chunk) < size
short(chunk, sz) == Len(chunk) < sz

InitRecv ==
    /\ InitSession
    /\ size \in 1..MaxSize
    /\ \E L \in 0..MaxLen : data = [i \in 1..L |-> i]
    /\ pending = data
    /\ peer_open \in BOOLEAN
    /\ fragments = <<>>
    /\ raw = <<>>
    /\ rx = "recv"
    /\ full = TRUE

\* the iteration that read `chunk`
Iterate(chunk) ==
    /\ fragments' = Append(fragments, chunk)
    /\ IF short(chunk, size)
       THEN /\ rx' = "done"
            /\ raw' = join(fragments')
       ELSE /\ rx' = "recv"
            /\ raw' = raw
    /\ UNCHANGED <<size, data, peer_open, session>>

\* socket.recv(size) with bytes available: between 1 and size of them
recv_data ==
    /\ rx = "recv"
    /\ pending # <<>>
    /\ \E n \in 1..Min(size, Len(pending)) :
         /\ pending' = SubSeq(pending, n + 1, Len(pending))
         /\ full' = (full /\ n = Min(size, Len(pending)))
         /\ Iterate(SubSeq(pending, 1, n))

\* socket.recv(size) with nothing left and the peer gone: b""; with the
\* peer still there recv blocks and no step is taken
recv_eof ==
    /\ rx = "recv"
    /\ pending = <<>>
    /\ ~peer_open
    /\ UNCHANGED <<pending, full>>
    /\ Iterate(<<>>)

NextRecv ==
    \/ recv_data
    \/ recv_eof

SpecRecv == InitRecv /\ [][NextRecv]_vars

\* ------------------------------------------------------------------ claims
QueryOps == {"init", "start", "reset", "run_tac", "goals", "premises"}
StateOps == {"run_tac", "goals", "premises"}

\* the step handed one more request to sendall
Sends == Len(sent') = Len(sent) + 1

Top(q) == q[Len(q)]

\* C1: the k-th request issued on the session carries id k, whatever the
\* kinds and outcomes of the calls before it; the counter equals the number
\* of requests issued.
C1_RequestIdsCount ==
    /\ \A k \in 1..Len(sent) : sent[k] = k
    /\ id = Len(sent)
    /\ (sent # <<>> => lastReq.id = Len(sent))

\* the third request, issued by a run_tac, goals or premises call after an
\* init and a start, and answered by a Failure or a mismatched Response
C1_Witness ==
    /\ Len(sent) >= 3
    /\ env \in Envs
    /\ started
    /\ last.op \in StateOps
    /\ last.exc = "PetanqueError"
    /\ lastReply.kind \in {"Failure", "Response"}
    /\ lastReq.id = 3

\* C2 (as stated): backtrack on a stack of exactly one entry raises the
\* client's error and leaves the stack as it was.
C2_BacktrackAtStartFails ==
    [][(last'.op = "backtrack" /\ Len(queue) = 1)
          => (last'.exc = "PetanqueError" /\ queue' = queue)]_vars

\* C3 (as stated): a call that issues a request and fails leaves the state
\* stack exactly as it was before the call.
C3_FailedCallKeepsStack ==
    [][(last'.op \in QueryOps /\ last'.exc # "none") => queue' = queue]_vars

\* C4 (as stated): once a start has succeeded the stack is never empty
\* again, and right after a successful start it holds exactly one entry.
C4_NonEmptyAfterStart ==
    /\ (started => queue # <<>>)
    /\ (last.op \in {"start", "reset"} /\ last.exc = "none" => Len(queue) = 1)

\* C5 (as stated): a reply that is a Response with an id other than the one
\* just sent makes the call raise the client's error naming both ids, return
\* nothing, and leave the state stack as it was, for every kind of call.
C5_MismatchRaisesAndKeepsStack ==
    [][(Sends /\ lastReply'.kind = "Response" /\ lastReply'.id # lastReq'.id)
          => /\ last'.exc = "PetanqueError"
             /\ last'.sentId = lastReq'.id
             /\ last'.gotId = lastReply'.id
             /\ last'.retTag = "None"
             /\ queue' = queue]_vars

\* C6: after a successful start and then only run_tac calls (no backtrack,
\* reset or start), the stack length is 1 + the number of those run_tac
\* calls that succeeded.
C6_LengthCountsTactics ==
    tacs_ok >= 0 => Len(queue) = 1 + tacs_ok

\* a failed run_tac after a successful one, both since the start
C6_Witness ==
    /\ tacs_ok >= 1
    /\ last.op = "run_tac"
    /\ last.exc # "none"
    /\ Len(queue) = 1 + tacs_ok

\* C7: after a successful start and N >= 1 successful run_tac calls,
\* backtrack returns (state id of the N-th tactic, text of the N-th tactic),
\* removes that top entry and leaves the N entries beneath it as they were.
C7_BacktrackReturnsLastTactic ==
    [][(last'.op = "backtrack" /\ tacs_ok >= 1)
          => /\ last'.exc = "none"
             /\ last'.retId = lastTac.id
             /\ last'.retTag = lastTac.action
             /\ Len(queue) = tacs_ok + 1
             /\ queue' = SubSeq(queue, 1, tacs_ok)]_vars

\* a backtrack has just undone the second of two tactics
C7_Witness ==
    /\ last.op = "backtrack"
    /\ last.n >= 2
    /\ last.exc = "none"
    /\ last.retTag \in Tactics
    /\ Len(queue) = last.n

\* C8: a successful reset leaves exactly one entry, with action "Start" and
\* the id that the reply to reset's own start request carried.
C8_ResetRestarts ==
    (last.op = "reset" /\ last.exc = "none")
        => /\ lastReq.method = "petanque/start"
           /\ lastReq.id = id
           /\ queue = <<State(lastReply.val, "Start")>>

\* a reset has succeeded on a proof that had run a tactic
C8_Witness ==
    /\ last.op = "reset"
    /\ last.exc = "none"
    /\ last.n >= 1
    /\ Len(queue) = 1

\* C9: run, goals and premises requests carry the id of the top of the
\* stack at the moment of the call; goals and premises never change the
\* stack; run_tac changes it only by pushing one entry when it succeeds.
C9_TopOfStackFrame ==
    [][(last'.op \in StateOps)
          => /\ Sends => /\ queue # <<>>
                         /\ lastReq'.params.state_id = Top(queue).id
             /\ last'.op \in {"goals", "premises"} => queue' = queue
             /\ last'.op = "run_tac" =>
                   IF last'.exc = "none"
                   THEN /\ Len(queue') = Len(queue) + 1
                        /\ SubSeq(queue', 1, Len(queue)) = queue
                   ELSE queue' = queue]_vars

\* a goals request sent against the state a tactic produced
C9_Witness ==
    /\ last.op \in {"goals", "premises"}
    /\ last.exc = "none"
    /\ Len(queue) >= 2
    /\ lastReq.params.state_id = Top(queue).id
    /\ lastReq.params.state_id = lastTac.id

\* C10 (as stated): on an empty stack run_tac, goals and premises raise the
\* client's error before any network call: nothing is sent, the counter
\* stays, the stack stays empty.
C10_EmptyStackRejected ==
    [][(last'.op \in StateOps /\ queue = <<>>)
          => /\ last'.exc = "PetanqueError"
             /\ sent' = sent
             /\ id' = id
             /\ queue' = <<>>]_vars

\* C11 (as stated): a Failure reply makes the call raise the client's error
\* with the server's message and leaves the environment handle and the state
\* stack as they were; the call after it is sent with the next request id
\* and returns when it is answered by a matching, valid Response.
C11_FailureKeepsSession ==
    [][/\ (Sends /\ lastReply'.kind = "Failure")
            => /\ last'.exc = "PetanqueError"
               /\ last'.msg = lastReply'.error
               /\ env' = env
               /\ queue' = queue
       /\ (last.op \in QueryOps /\ lastReply.kind = "Failure"
             /\ last'.op \in QueryOps /\ id < MaxCalls
             /\ (last'.op \in StateOps => queue # <<>>))
            => /\ Sends
               /\ lastReq'.id = lastReq.id + 1
               /\ (lastReply'.kind = "Response" /\ lastReply'.id = lastReq'.id
                     /\ lastReply'.tag # "Other") => last'.exc = "none"]_vars

\* C12: a run_tac whose reply is a matching Response with CurrentState(st)
\* or ProofFinished(st) pushes exactly the entry (st, tac) and returns that
\* variant; with any other variant it raises "Invalid proof state" and
\* pushes nothing.
C12_RunPushesBothVariants ==
    [][(last'.op = "run_tac" /\ Sends /\ lastReply'.kind = "Response"
          /\ lastReply'.id = lastReq'.id)
          => IF lastReply'.tag \in {"CurrentState", "ProofFinished"}
             THEN /\ queue' = Append(queue, State(lastReply'.val,
                                                  lastReq'.params.tactic))
                  /\ last'.exc = "none"
                  /\ last'.retTag = lastReply'.tag
                  /\ last'.retId = lastReply'.val
             ELSE /\ queue' = queue
                  /\ last'.exc = "PetanqueError"
                  /\ last'.msg = "Invalid proof state"]_vars

\* a ProofFinished pushed on top of a CurrentState on top of the Start entry
C12_Witness ==
    /\ Len(queue) = 3
    /\ queue[1].action = "Start"
    /\ queue[2].action = "intro x."
    /\ queue[3].action = "reflexivity."
    /\ last.op = "run_tac"
    /\ last.retTag = "ProofFinished"
    /\ last.retId = queue[3].id

\* C13 (as stated): a start request is sent only once an init has succeeded
\* and carries the handle init returned; an init after a successful init is
\* rejected and leaves the stored handle alone.
C13_InitOnceBeforeStart ==
    [][/\ (last'.op \in {"start", "reset"} /\ Sends /\ socket = "connected")
            => (env \in Envs /\ lastReq'.params.env = env)
       /\ (last'.op = "init" /\ env \in Envs)
            => (last'.exc # "none" /\ env' = env)]_vars

\* C16 (as stated): a reply that is not a Response, be it a Failure or
\* neither, ends the call with the client's error (with the Failure's
\* message when there is one), never with a result and never with an error
\* of another kind.
C16_NonResponseIsClientError ==
    (last.op \in QueryOps /\ lastReply.kind \in {"Failure", "Garbage"})
        => /\ last.exc = "PetanqueError"
           /\ last.retTag = "None"
           /\ (lastReply.kind = "Failure" => last.msg = lastReply.error)

\* C20: backtrack sends nothing and leaves the request id counter, the
\* environment handle, the file and the theorem alone, so the request after
\* it carries the id that follows the last one sent.
C20_BacktrackIsLocal ==
    [][/\ (last'.op = "backtrack")
            => /\ sent' = sent
               /\ lastReq' = lastReq
               /\ id' = id
               /\ env' = env
               /\ file' = file
               /\ thm' = thm
       /\ (last.op = "backtrack" /\ Sends)
            => lastReq'.id = Len(sent) + 1]_vars

\* a backtrack that popped an entry after an init and a start were sent
C20_Witness ==
    /\ last.op = "backtrack"
    /\ last.exc = "none"
    /\ Len(sent) >= 2
    /\ env \in Envs

\* C17: after a backtrack that popped an entry of a stack of two or more,
\* the next run, goals or premises request carries the id of the entry that
\* was directly beneath the popped one, not the id backtrack returned.
C17_BacktrackRestoresPrevious ==
    [][(last.op = "backtrack" /\ last.exc = "none" /\ queue # <<>>
          /\ last'.op \in StateOps /\ Sends)
          => /\ lastReq'.params.state_id = last.under
             /\ (last.under # last.retId
                   => lastReq'.params.state_id # last.retId)]_vars

\* a goals or premises answered for the Start state, reached again by a
\* backtrack over a tactic that had produced another state id
C17_Witness ==
    /\ last.op \in {"goals", "premises"}
    /\ last.exc = "none"
    /\ Len(queue) = 1
    /\ lastTac.action \in Tactics
    /\ lastTac.id # queue[1].id
    /\ lastReq.params.state_id = queue[1].id

\* C18: reset sends exactly one request, a start request carrying the
\* stored environment handle and the file and theorem passed to the most
\* recent start call, whether that start succeeded or failed.
C18_ResetReusesStartArgs ==
    [][(last'.op = "reset")
          => /\ Len(sent') = Len(sent) + 1
             /\ lastReq'.id = id + 1
             /\ lastReq'.method = "petanque/start"
             /\ lastReq'.params =
                    StartParams(env, as_uri(startArgs[1]), startArgs[2])]_vars

\* a reset issued after an init that succeeded and a start that failed
C18_Witness ==
    /\ last.op = "reset"
    /\ startArgs \in Proofs
    /\ ~started
    /\ env \in Envs
    /\ lastReply.kind = "Failure"
    /\ lastReq.params.thm = startArgs[2]
    /\ Len(sent) >= 3

\* C19: a non-empty stack has at its bottom the entry of the most recent
\* successful start (action "Start", id = its result); every entry above was
\* pushed by a successful run request issued later, in the order issued,
\* that targeted the id of the entry directly beneath.
C19_StackProvenance ==
    queue # <<>> =>
        /\ Len(prov) = Len(queue)
        /\ prov[1].method = "petanque/start"
        /\ prov[1].req = startReq
        /\ queue[1] = State(prov[1].result, "Start")
        /\ \A i \in 2..Len(queue) :
              /\ prov[i].method = "petanque/run"
              /\ prov[i].req > prov[i - 1].req
              /\ queue[i] = State(prov[i].result, prov[i].tactic)
              /\ prov[i].target = queue[i - 1].id

\* a tactic pushed on the Start entry after an earlier tactic was undone
C19_Witness ==
    /\ Len(queue) = 2
    /\ tacs_ok = -1
    /\ last.op = "run_tac"
    /\ last.exc = "none"
    /\ prov[2].req = 3
    /\ prov[1].req = 1

\* C14: once the managed block has been entered and then left, by the end
\* of its body or by an exception raised inside it, the socket is closed.
C14_BlockExitCloses ==
    block = "left" => socket = "closed"

\* the block left by an exception that a call of its body raised
C14_Witness ==
    /\ block = "left"
    /\ last.op = "__exit__"
    /\ last.exc \in {"PetanqueError", "IndexError", "ValueError", "OSError"}
    /\ socket = "closed"

\* C15: the receive loop reads chunks of at most `size` bytes, goes on
\* after every full chunk and stops at the first shorter one (an empty one
\* included); what it hands to the decoder is the chunks read, in order.
\* With the reply delivered in full chunks by a peer that stays connected,
\* it stops, at the end of the reply, exactly when the reply's length is not
\* a multiple of `size`; when it is a multiple the loop blocks in recv.
C15_ShortReadFraming ==
    rx # "idle" =>
        /\ \A i \in 1..(Len(fragments) - 1) : Len(fragments[i]) = size
        /\ (rx = "done") <=>
              (fragments # <<>> /\ Len(fragments[Len(fragments)]) < size)
        /\ join(fragments) \o pending = data
        /\ rx = "done" => raw \o pending = data
        /\ (full /\ pending = <<>> /\ Len(data) % size # 0)
              => (rx = "done" /\ raw = data)
        /\ (full /\ peer_open /\ rx = "done")
              => (Len(data) % size # 0 /\ raw = data)
        /\ (full /\ peer_open /\ pending = <<>> /\ Len(data) % size = 0)
              => (rx = "recv" /\ ~ENABLED NextRecv)

\* a reply of two full chunks read from a peer that stays connected: the
\* loop is in recv with nothing to read
C15_Witness ==
    /\ rx = "recv"
    /\ size >= 2
    /\ Len(data) = 2 * size
    /\ Len(fragments) = 2
    /\ pending = <<>>
    /\ peer_open
    /\ full

====
